---- MODULE Spec2Model ----
(***************************************************************************)
(* Model of server/index.js: the metrics scorer (detectModernCode,         *)
(* calculateDetailedMetrics), the fallback responder, the handlers of      *)
(* POST /api/analyze, POST /api/analyze-all and GET /api/analysis-types,   *)
(* the upload storage and two requests in flight at once; and of           *)
(* client/src/App.jsx: analyzeCode and the state it sets.  Texts are TLA+  *)
(* strings; String.includes and String.toLowerCase are computed character  *)
(* by character.                                                           *)
(***************************************************************************)
EXTENDS Integers, Sequences, FiniteSets, TLC

VARIABLES
  analysisType,   \* the category of the request under observation
  response,       \* the response text handed to the scorer
  inputCode,      \* the submitted code handed to the scorer
  metrics,        \* what the latest scorer call on these inputs produced
  firstMetrics,   \* what the first scorer call on these inputs produced
  errorMetrics,   \* the record the bulk handler's catch path built, if any
  detected,       \* what detectModernCode returned for inputCode, if called
  now,            \* the clock read by new Date()
  genAI,          \* the module-level handle of line 28
  req,            \* the HTTP request being handled, if any
  res,            \* the HTTP response sent for it, if any
  pending,        \* the categories whose generateContent call is awaited
  calls,          \* the generateContent calls issued for the request
  settled,        \* what the call of each settled category settled with
  results,        \* /api/analyze-all: the entries of the settled categories
  mocked,         \* the calls of getEnhancedMockResponse made for the request
  scored,         \* the calls of calculateDetailedMetrics made for the request
  other,          \* a second request in flight: its handler's state while
                  \* the event loop runs the handler of req
  client,         \* the state of the React component App (client/src/App.jsx)
  uploads,        \* the directory uploads/: the content stored under each path
  incoming        \* the request as upload.single('file') received it, with
                  \* the path its file was stored under

vars == <<analysisType, response, inputCode, metrics, firstMetrics, errorMetrics, detected, now, genAI, req, res, pending, calls, settled, results, mocked, scored, other, client, uploads, incoming>>

scorerVars == <<analysisType, response, inputCode, metrics, firstMetrics, errorMetrics, detected, now, genAI>>

\* the request being handled: req, res and the locals of its handler
handlerVars == <<req, res, pending, calls, settled, results, mocked, scored>>

serverVars == <<req, res, pending, calls, settled, results, mocked, scored, other>>

(***************************************************************************)
(* Bounds of the model.                                                    *)
(***************************************************************************)
MaxFrags == 2      \* a response text is made of at most this many fragments
MaxCodeFrags == 3  \* a submitted code is made of at most this many fragments
MaxClock == 3      \* scorer calls, other requests and catch paths observed

(***************************************************************************)
(* JavaScript values that are not texts.                                   *)
(***************************************************************************)
undefined == "<undefined>"                \* an absent argument or field
NoRequest == [none |-> TRUE]              \* no request received yet
NoResponse == [none |-> TRUE]             \* no response sent yet
NoHandler == [none |-> TRUE]              \* no second request in flight
NoClient == [none |-> TRUE]               \* the page is not open
NoRecord == [none |-> TRUE]               \* nothing produced yet
TypeError == [threw |-> "TypeError"]      \* the call threw instead of returning

IsRecord(m) == "overallScore" \in DOMAIN m

(***************************************************************************)
(* String primitives.                                                      *)
(***************************************************************************)
UpperToLower ==
  [A |-> "a", B |-> "b", C |-> "c", D |-> "d", E |-> "e", F |-> "f", G |-> "g",
   H |-> "h", I |-> "i", J |-> "j", K |-> "k", L |-> "l", M |-> "m", N |-> "n",
   O |-> "o", P |-> "p", Q |-> "q", R |-> "r", S |-> "s", T |-> "t", U |-> "u",
   V |-> "v", W |-> "w", X |-> "x", Y |-> "y", Z |-> "z"]

\* String.prototype.toLowerCase: every character mapped, the text split in
\* halves so that the recursion stays shallow
RECURSIVE toLowerCase(_)
toLowerCase(s) ==
  IF s = "" THEN ""
  ELSE IF Len(s) = 1
       THEN (IF s \in DOMAIN UpperToLower THEN UpperToLower[s] ELSE s)
       ELSE LET h == Len(s) \div 2
            IN toLowerCase(SubSeq(s, 1, h)) \o toLowerCase(SubSeq(s, h + 1, Len(s)))

\* includes replaced by startsWith
includes_startsWith(s, k) == Len(k) <= Len(s) /\ SubSeq(s, 1, Len(k)) = k

\* String.prototype.includes: k occurs in s as a contiguous substring
includes(s, k) ==
  \E i \in 1..(Len(s) - Len(k) + 1) : SubSeq(s, i, i + Len(k) - 1) = k

\* the count kept in a variable that outlives the call and is never reset:
\* it grows with the calls made before
filterLength_accumulated(list, text) ==
  Len(SelectSeq(list, LAMBDA k : includes(text, k))) + now

\* every occurrence of a keyword counted, not every keyword that occurs
filterLength_everyOccurrence(list, text) ==
  Cardinality({ p \in (DOMAIN list) \X (1..Len(text)) :
                  /\ p[2] + Len(list[p[1]]) - 1 <= Len(text)
                  /\ SubSeq(text, p[2], p[2] + Len(list[p[1]]) - 1) = list[p[1]] })

\* Array.prototype.filter(...).length
filterLength(list, text) == Len(SelectSeq(list, LAMBDA k : includes(text, k)))

\* The code-fence marker of line 128, three backticks.  A TLA+ string cannot
\* hold a backtick, so the character is written ~ (which no keyword uses).
codeFence == "~~~"

Max(a, b) == IF a >= b THEN a ELSE b
Min(a, b) == IF a <= b THEN a ELSE b

(***************************************************************************)
(* detectModernCode, lines 31-56.                                          *)
(***************************************************************************)
modernIndicators ==
  <<"const ", "let ", "=>", "async ", "await ", "import ", "export ",
    "class ", "extends ", "constructor", "get ", "set ",
    "Promise", "fetch", "async/await", "template literals",
    "destructuring", "spread operator", "arrow functions">>

legacyIndicators ==
  <<"var ", "function(", "callback", "jQuery", "$(",
    "document.getElementById", "innerHTML", "eval(",
    "with(", "arguments.callee">>

\* >= in place of > between the two counts
detectModernCode_notStrict(code) ==
  IF code = undefined \/ code = "" THEN FALSE
  ELSE LET modernCount == filterLength(modernIndicators, code)
           legacyCount == filterLength(legacyIndicators, code)
       IN modernCount >= legacyCount /\ modernCount >= 3

detectModernCode(code) ==
  IF code = undefined \/ code = "" THEN FALSE
  ELSE LET modernCount == filterLength(modernIndicators, code)
           legacyCount == filterLength(legacyIndicators, code)
       IN modernCount > legacyCount /\ modernCount >= 3

(***************************************************************************)
(* The keyword table of calculateDetailedMetrics, lines 66-103.            *)
(***************************************************************************)
analysisKeywords ==
  [modernization |->
     [negative |-> <<"outdated", "legacy", "deprecated", "old", "ancient", "obsolete", "var", "function()", "callback", "jquery">>,
      positive |-> <<"modern", "es6", "es2015+", "async/await", "arrow functions", "const/let", "modules", "typescript">>],
   security |->
     [negative |-> <<"vulnerable", "unsafe", "risk", "danger", "injection", "xss", "csrf", "sql injection", "no validation">>,
      positive |-> <<"secure", "safe", "validated", "sanitized", "encrypted", "authentication", "authorization", "https">>],
   performance |->
     [negative |-> <<"slow", "inefficient", "bottleneck", "memory leak", "n+1 query", "blocking", "synchronous">>,
      positive |-> <<"fast", "efficient", "optimized", "cached", "async", "parallel", "streaming", "lazy loading">>],
   architecture |->
     [negative |-> <<"tightly coupled", "monolithic", "spaghetti", "god object", "circular dependency">>,
      positive |-> <<"modular", "loosely coupled", "separation of concerns", "design patterns", "clean architecture">>],
   complexity |->
     [negative |-> <<"complex", "complicated", "nested", "cyclomatic", "hard to read", "too many parameters">>,
      positive |-> <<"simple", "clean", "readable", "single responsibility", "small functions", "clear naming">>],
   documentation |->
     [negative |-> <<"no documentation", "missing comments", "unclear", "undocumented", "no examples">>,
      positive |-> <<"well documented", "clear comments", "examples", "api docs", "readme", "tutorials">>],
   cicd |->
     [negative |-> <<"manual deployment", "no tests", "no ci/cd", "no automation", "no monitoring">>,
      positive |-> <<"automated", "ci/cd", "tests", "monitoring", "deployment pipeline", "quality gates">>],
   transformation |->
     [negative |-> <<"refactor needed", "rewrite", "major changes", "poor structure", "bad practices">>,
      positive |-> <<"well structured", "good practices", "clean code", "minimal changes", "already good">>],
   reporting |->
     [negative |-> <<"no metrics", "no monitoring", "no reporting", "no analytics", "no insights">>,
      positive |-> <<"comprehensive", "detailed metrics", "monitoring", "analytics", "insights", "dashboard">>]]

\* The property names every object literal inherits from Object.prototype:
\* analysisKeywords[name] is a truthy value for them, with no keyword lists.
ObjectPrototypeKeys ==
  {"constructor", "toString", "toLocaleString", "valueOf", "hasOwnProperty",
   "isPrototypeOf", "propertyIsEnumerable", "__proto__",
   "__defineGetter__", "__defineSetter__", "__lookupGetter__", "__lookupSetter__"}

Inherited == [inherited |-> TRUE]

\* line 105: analysisKeywords[analysisType] || analysisKeywords.modernization
keywordsFor(type) ==
  IF type \in DOMAIN analysisKeywords THEN analysisKeywords[type]
  ELSE IF type \in ObjectPrototypeKeys THEN Inherited
  ELSE analysisKeywords.modernization

(***************************************************************************)
(* calculateDetailedMetrics, lines 60-160, step by step.                   *)
(***************************************************************************)
\* the two baselines exchanged
baseScoreOf_swapped(isModernInput) == IF isModernInput THEN 50 ELSE 75

\* the flat baseline of the scorer's earlier generation
baseScoreOf_flat(isModernInput) == 50

\* line 63: let baseScore = isModernInput ? 75 : 50
baseScoreOf(isModernInput) == IF isModernInput THEN 75 ELSE 50

\* the legacy weights applied to modern input too
adjustScore_legacyWeights(isModernInput, baseScore, negativeCount, positiveCount) ==
  baseScore - negativeCount * 10 + positiveCount * 8

\* lines 117-125: the penalties and rewards of modern and of legacy input
adjustScore(isModernInput, baseScore, negativeCount, positiveCount) ==
  IF isModernInput
  THEN baseScore - negativeCount * 5 + positiveCount * 10
  ELSE baseScore - negativeCount * 10 + positiveCount * 8

\* lines 128-130: the three markers looked for in the lower-cased response
hasCodeExamplesOf(responseLower) ==
  includes(responseLower, "example") \/ includes(responseLower, codeFence)

hasSpecificRecommendationsOf(responseLower) ==
  includes(responseLower, "recommend") \/ includes(responseLower, "suggest")

hasMetricsOf(responseLower) ==
  \/ includes(responseLower, "%")
  \/ includes(responseLower, "improvement")
  \/ includes(responseLower, "better")

\* lines 132-134: +5 for each marker found
addBonuses(baseScore, hasCodeExamples, hasSpecificRecommendations, hasMetrics) ==
  baseScore + (IF hasCodeExamples THEN 5 ELSE 0)
            + (IF hasSpecificRecommendations THEN 5 ELSE 0)
            + (IF hasMetrics THEN 5 ELSE 0)

\* the lower bound of the clamp forgotten
clampScore_noFloor(baseScore) == Min(100, baseScore)

\* line 137: Math.max(0, Math.min(100, baseScore))
clampScore(baseScore) == Max(0, Min(100, baseScore))

\* line 140: Math.max(0, 100 - baseScore)
improvementPotentialOf(baseScore) == Max(0, 100 - baseScore)

\* the cap of the +20 forgotten
modernizationLevelOf_uncapped(type, baseScore) ==
  IF type = "modernization" THEN baseScore ELSE baseScore + 20

\* line 142
modernizationLevelOf(type, baseScore) ==
  IF type = "modernization" THEN baseScore ELSE Min(100, baseScore + 20)

\* The whole function.  The result is the metrics record, or TypeError when
\* the call throws: response.toLowerCase() on an absent response (line 61),
\* keywords.negative.filter on a value without keyword lists (line 108).
\* An absent inputCode takes the parameter's default ''.  Math.round leaves
\* the integers it is given unchanged.
calculateDetailedMetrics(type, resp, code) ==
  IF resp = undefined THEN TypeError
  ELSE
    LET responseLower == toLowerCase(resp)
        isModernInput == detectModernCode(IF code = undefined THEN "" ELSE code)
        keywords == keywordsFor(type)
    IN IF "negative" \notin DOMAIN keywords THEN TypeError
       ELSE
         LET negativeCount == filterLength(keywords.negative, responseLower)
             positiveCount == filterLength(keywords.positive, responseLower)
             hasCodeExamples == hasCodeExamplesOf(responseLower)
             hasSpecificRecommendations == hasSpecificRecommendationsOf(responseLower)
             hasMetrics == hasMetricsOf(responseLower)
             baseScore ==
               clampScore(
                 addBonuses(
                   adjustScore(isModernInput, baseScoreOf(isModernInput),
                               negativeCount, positiveCount),
                   hasCodeExamples, hasSpecificRecommendations, hasMetrics))
         IN [overallScore |-> baseScore,
             improvementPotential |-> improvementPotentialOf(baseScore),
             codeQuality |-> baseScore,
             modernizationLevel |-> modernizationLevelOf(type, baseScore),
             issuesFound |-> negativeCount,
             improvementsSuggested |-> positiveCount,
             hasCodeExamples |-> hasCodeExamples,
             hasSpecificRecommendations |-> hasSpecificRecommendations,
             hasMetrics |-> hasMetrics,
             analysisType |-> type,
             timestamp |-> now]

\* every number of the error record set to 0
bulkErrorMetrics_allZero(type) ==
  [overallScore |-> 0,
   improvementPotential |-> 0,
   codeQuality |-> 0,
   modernizationLevel |-> 0,
   issuesFound |-> 0,
   improvementsSuggested |-> 0,
   hasCodeExamples |-> FALSE,
   hasSpecificRecommendations |-> FALSE,
   hasMetrics |-> FALSE,
   analysisType |-> type,
   timestamp |-> now]

(***************************************************************************)
(* The record the /api/analyze-all handler builds in a category's catch    *)
(* path, lines 2041-2053, 2064-2076 and 2086-2098 (the three are equal).   *)
(***************************************************************************)
bulkErrorMetrics(type) ==
  [overallScore |-> 0,
   improvementPotential |-> 100,
   codeQuality |-> 0,
   modernizationLevel |-> 0,
   issuesFound |-> 1,
   improvementsSuggested |-> 0,
   hasCodeExamples |-> FALSE,
   hasSpecificRecommendations |-> FALSE,
   hasMetrics |-> FALSE,
   analysisType |-> type,
   timestamp |-> now]

(***************************************************************************)
(* Inputs.                                                                 *)
(***************************************************************************)
KnownTypes == DOMAIN analysisKeywords

\* the 9 categories, an unknown one and an inherited property name
AnalysisTypes == KnownTypes \cup {"bogus", "constructor"}

VulnerableUnsafe == "vulnerable unsafe"

\* the fragments response texts are made of: the text of Scenario C, a text
\* of negative keywords and a text of positive keywords and bonus markers
Fragments ==
  {VulnerableUnsafe,
   " old var legacy jQuery callback obsolete: slow complex monolithic rewrite, no monitoring ",
   " Modern ES6 TypeScript modules async/await Examples: recommend 20% "}

RECURSIVE Concat(_)
Concat(fs) == IF fs = <<>> THEN "" ELSE Head(fs) \o Concat(Tail(fs))

TextsOf(frags, n) == { Concat(fs) : fs \in UNION { [1..k -> frags] : k \in 0..n } }

\* a text whose end and beginning together spell the keyword "unsafe"
SafeUn == "safe un"

Responses == TextsOf(Fragments, MaxFrags) \cup {undefined, SafeUn}

LegacyCode == "var x = 1;"
ModernCode == "const a = 1; let b = () => a;"

Codes == {"", LegacyCode, ModernCode}

CodeFragments ==
  {"const a = async () => 1; ", "let b; ", "import f; ",
   "var c = $(d); eval(e); ", "callback"}

CodeTexts == TextsOf(CodeFragments, MaxCodeFrags) \cup {undefined}

(***************************************************************************)
\* no request has been received
ServerIdle ==
  /\ req = NoRequest
  /\ res = NoResponse
  /\ pending = {}
  /\ calls = <<>>
  /\ settled = <<>>
  /\ results = <<>>
  /\ mocked = {}
  /\ scored = {}
  /\ other = NoHandler

(***************************************************************************)
(* The scorer's state machine: one request's inputs are fixed, the scorer  *)
(* is called on them any number of times, other requests are scored in     *)
(* between, and the bulk handler may build the category's error record.    *)
(***************************************************************************)
Init ==
  /\ analysisType \in AnalysisTypes
  /\ response \in Responses
  /\ inputCode \in Codes
  /\ metrics = NoRecord
  /\ firstMetrics = NoRecord
  /\ errorMetrics = NoRecord
  /\ detected = NoRecord
  /\ now = 0
  /\ genAI = undefined
  /\ ServerIdle
  /\ client = NoClient
  /\ uploads = <<>>
  /\ incoming = NoRequest

\* a handler calls calculateDetailedMetrics(analysisType, response, inputCode)
Score ==
  /\ now < MaxClock
  /\ metrics' = calculateDetailedMetrics(analysisType, response, inputCode)
  /\ firstMetrics' = IF firstMetrics = NoRecord THEN metrics' ELSE firstMetrics
  /\ now' = now + 1
  /\ UNCHANGED <<analysisType, response, inputCode, errorMetrics, detected, genAI>>
  /\ UNCHANGED serverVars
  /\ UNCHANGED <<client, uploads, incoming>>

\* another request is scored: the scorer assigns nothing outside its locals
OtherRequest ==
  /\ now < MaxClock
  /\ \E c \in {LegacyCode, ModernCode} :
       IsRecord(calculateDetailedMetrics("security", "unsafe", c))
  /\ now' = now + 1
  /\ UNCHANGED <<analysisType, response, inputCode, metrics, firstMetrics,
                 errorMetrics, detected, genAI>>
  /\ UNCHANGED serverVars
  /\ UNCHANGED <<client, uploads, incoming>>

\* the bulk handler's catch path builds the error record of the category
BulkCatch ==
  /\ now < MaxClock
  /\ analysisType \in KnownTypes
  /\ errorMetrics = NoRecord
  /\ errorMetrics' = bulkErrorMetrics(analysisType)
  /\ now' = now + 1
  /\ UNCHANGED <<analysisType, response, inputCode, metrics, firstMetrics,
                 detected, genAI>>
  /\ UNCHANGED serverVars
  /\ UNCHANGED <<client, uploads, incoming>>

Next == Score \/ OtherRequest \/ BulkCatch

Spec == Init /\ [][Next]_vars

(***************************************************************************)
(* The classifier alone, on codes made of code fragments.                  *)
(***************************************************************************)
InitDetect ==
  /\ analysisType = "modernization"
  /\ response = ""
  /\ inputCode \in CodeTexts
  /\ metrics = NoRecord
  /\ firstMetrics = NoRecord
  /\ errorMetrics = NoRecord
  /\ detected = NoRecord
  /\ now = 0
  /\ genAI = undefined
  /\ ServerIdle
  /\ client = NoClient
  /\ uploads = <<>>
  /\ incoming = NoRequest

Detect ==
  /\ detected = NoRecord
  /\ detected' = [isModern |-> detectModernCode(inputCode)]
  /\ UNCHANGED <<analysisType, response, inputCode, metrics, firstMetrics,
                 errorMetrics, now, genAI>>
  /\ UNCHANGED serverVars
  /\ UNCHANGED <<client, uploads, incoming>>

NextDetect == Detect

SpecDetect == InitDetect /\ [][NextDetect]_vars

(***************************************************************************)
(* Properties of the scorer.                                               *)
(***************************************************************************)
Range(list) == { list[i] : i \in DOMAIN list }

\* the entries of a keyword list that occur in a text
Occurring(list, text) == { k \in Range(list) : includes(text, k) }

\* the classification of a submitted code, an absent one counting as empty
IsModern(code) == detectModernCode(IF code = undefined THEN "" ELSE code)

\* the keyword lists a returned record was counted against
TableOf(type) ==
  IF type \in KnownTypes THEN analysisKeywords[type] ELSE analysisKeywords.modernization

\* The scorer has just returned its first record on these arguments.  Every
\* input is seen in such a state; the records of later calls are compared
\* with this one field by field under C6.
FirstReturned ==
  /\ IsRecord(metrics)
  /\ metrics.timestamp = now - 1
  /\ firstMetrics = metrics

\* C1: every record the scorer returns has overallScore, improvementPotential,
\* codeQuality and modernizationLevel in 0..100 and non-negative counts,
\* whatever the category, the response text and the input code.
C1_ScoresInRange ==
  IsRecord(metrics) =>
    /\ metrics.overallScore \in 0..100
    /\ metrics.improvementPotential \in 0..100
    /\ metrics.codeQuality \in 0..100
    /\ metrics.modernizationLevel \in 0..100
    /\ metrics.issuesFound \in Nat
    /\ metrics.improvementsSuggested \in Nat

\* an unknown category whose six negative matches push the sum below 0
C1_Witness ==
  /\ IsRecord(metrics)
  /\ analysisType = "bogus"
  /\ metrics.issuesFound >= 6
  /\ metrics.overallScore = 0

C3_PotentialComplementsScore ==
  /\ IsRecord(metrics) => metrics.improvementPotential + metrics.overallScore = 100
  /\ IsRecord(errorMetrics) =>
       errorMetrics.improvementPotential + errorMetrics.overallScore = 100

\* both kinds of record exist, the scorer's one strictly inside the range
C3_Witness ==
  /\ IsRecord(errorMetrics)
  /\ IsRecord(metrics)
  /\ metrics.overallScore \in 1..99

\* C4: modernizationLevel = overallScore for category "modernization" and
\* min(100, overallScore + 20) for every other category string; codeQuality
\* = overallScore always.
C4_ModernizationLevel ==
  IsRecord(metrics) =>
    /\ metrics.codeQuality = metrics.overallScore
    /\ analysisType = "modernization" =>
         metrics.modernizationLevel = metrics.overallScore
    /\ analysisType # "modernization" =>
         metrics.modernizationLevel =
           (IF metrics.overallScore + 20 > 100 THEN 100 ELSE metrics.overallScore + 20)

\* an unknown category whose score + 20 exceeds 100
C4_Witness ==
  /\ IsRecord(metrics)
  /\ analysisType = "bogus"
  /\ metrics.overallScore > 80
  /\ metrics.modernizationLevel = 100

\* C5: for the same category and response, the score of a code classified
\* modern is never lower than the score of a code classified legacy.
C5_ModernNeverLower ==
  FirstReturned =>
    \A c \in {LegacyCode, ModernCode} :
      /\ (IsModern(c) /\ ~IsModern(inputCode)) =>
           calculateDetailedMetrics(analysisType, response, c).overallScore
             >= metrics.overallScore
      /\ (~IsModern(c) /\ IsModern(inputCode)) =>
           metrics.overallScore
             >= calculateDetailedMetrics(analysisType, response, c).overallScore

\* both classifications clamped to the same 100
C5_Witness ==
  /\ IsRecord(metrics)
  /\ inputCode = ModernCode
  /\ metrics.overallScore = 100
  /\ calculateDetailedMetrics(analysisType, response, LegacyCode).overallScore = 100

SameButTimestamp(a, b) ==
  IF IsRecord(a) /\ IsRecord(b)
  THEN [a EXCEPT !.timestamp = 0] = [b EXCEPT !.timestamp = 0]
  ELSE a = b

C9_Original ==
  (analysisType = "security" /\ response = VulnerableUnsafe /\ IsRecord(metrics)) =>
    /\ metrics.issuesFound = 2
    /\ metrics.improvementsSuggested = 0
    /\ metrics.overallScore = (IF IsModern(inputCode) THEN 65 ELSE 30)

\* C9 as amended: for category security the text "vulnerable unsafe" gives
\* issuesFound = 2 and improvementsSuggested = 1 (the positive keyword "safe"
\* occurs inside "unsafe"), so the score is 38 for legacy input code (12
\* below the empty text's 50) and 75 for modern input code (equal to the
\* empty text's 75).
C9_Amended ==
  (analysisType = "security" /\ response = VulnerableUnsafe /\ IsRecord(metrics)) =>
    LET empty == calculateDetailedMetrics("security", "", inputCode)
    IN /\ metrics.issuesFound = 2
       /\ metrics.improvementsSuggested = 1
       /\ metrics.overallScore = (IF IsModern(inputCode) THEN 75 ELSE 38)
       /\ empty.overallScore - metrics.overallScore
            = (IF IsModern(inputCode) THEN 0 ELSE 12)

C9_Witness ==
  /\ analysisType = "security"
  /\ response = VulnerableUnsafe
  /\ inputCode = LegacyCode
  /\ IsRecord(metrics)
  /\ metrics.overallScore = 38

\* C10: for a category string that is none of the 9 known identifiers the
\* scorer returns a record whose overallScore, issuesFound and
\* improvementsSuggested are those of category "modernization" on the same
\* response and code, and whose analysisType is the given string.
C10_UnknownUsesModernization ==
  (analysisType \notin KnownTypes /\ response # undefined /\ metrics # NoRecord) =>
    LET ref == calculateDetailedMetrics("modernization", response, inputCode)
    IN /\ IsRecord(metrics)
       /\ metrics.overallScore = ref.overallScore
       /\ metrics.issuesFound = ref.issuesFound
       /\ metrics.improvementsSuggested = ref.improvementsSuggested
       /\ metrics.analysisType = analysisType

\* C11: calculateDetailedMetrics raises no error for any category and any
\* response text, a missing or empty one included: every call returns a
\* record, and for a missing or empty text the record's counts of matches
\* are 0.
C11_NeverRaises ==
  metrics # NoRecord =>
    /\ IsRecord(metrics)
    /\ response \in {"", undefined} =>
         (metrics.issuesFound = 0 /\ metrics.improvementsSuggested = 0)

\* a text with every lower-case letter replaced by its upper-case letter
RECURSIVE toUpperCase(_)
toUpperCase(s) ==
  IF s = "" THEN ""
  ELSE IF Len(s) = 1
       THEN (IF \E u \in DOMAIN UpperToLower : UpperToLower[u] = s
             THEN CHOOSE u \in DOMAIN UpperToLower : UpperToLower[u] = s
             ELSE s)
       ELSE LET h == Len(s) \div 2
            IN toUpperCase(SubSeq(s, 1, h)) \o toUpperCase(SubSeq(s, h + 1, Len(s)))

\* k occurs in text \o text across the junction: a proper prefix of k ends
\* the text and the rest of k begins it
Straddles(k, text) ==
  \E i \in 1..(Len(k) - 1) :
    /\ i <= Len(text)
    /\ Len(k) - i <= Len(text)
    /\ SubSeq(text, Len(text) - i + 1, Len(text)) = SubSeq(k, 1, i)
    /\ SubSeq(text, 1, Len(k) - i) = SubSeq(k, i + 1, Len(k))

\* the markers of lines 128-130
Markers ==
  <<"example", codeFence, "recommend", "suggest", "%", "improvement", "better">>

\* no keyword of the category and no marker is spelled across the junction
NoneStraddles(type, text) ==
  \A k \in Range(TableOf(type).negative) \cup Range(TableOf(type).positive)
             \cup Range(Markers) :
    ~Straddles(k, toLowerCase(text))

\* each keyword counts at most once
CountsWithinLists(m, type) ==
  /\ m.issuesFound <= Len(TableOf(type).negative)
  /\ m.improvementsSuggested <= Len(TableOf(type).positive)

\* the scorer's first call on these arguments was the first step taken:
\* every triple of arguments is seen in exactly one such state
ScoredAtOnce == FirstReturned /\ now = 1

\* C12 as claimed: the scorer's record (timestamp apart) does not change when
\* the case of the letters of the response changes nor when the response is
\* concatenated with itself, and the two counts are at most the sizes of the
\* category's two keyword lists.
C12_Original ==
  ScoredAtOnce =>
    /\ SameButTimestamp(metrics,
         calculateDetailedMetrics(analysisType, toUpperCase(response), inputCode))
    /\ SameButTimestamp(metrics,
         calculateDetailedMetrics(analysisType, response \o response, inputCode))
    /\ CountsWithinLists(metrics, analysisType)

\* C12 amended: the record does not change with the case of the letters, the
\* counts are within the sizes of the lists, and the record of the response
\* concatenated with itself is the same when no keyword or marker is spelled
\* across the junction; otherwise its counts are not lower, and for category
\* security the text "safe un" has issuesFound 0 and its doubling has 1.
C12_Amended ==
  ScoredAtOnce =>
    LET upper == calculateDetailedMetrics(analysisType, toUpperCase(response), inputCode)
        twice == calculateDetailedMetrics(analysisType, response \o response, inputCode)
    IN /\ SameButTimestamp(metrics, upper)
       /\ CountsWithinLists(metrics, analysisType)
       /\ CountsWithinLists(twice, analysisType)
       /\ NoneStraddles(analysisType, response) => SameButTimestamp(metrics, twice)
       /\ twice.issuesFound >= metrics.issuesFound
       /\ twice.improvementsSuggested >= metrics.improvementsSuggested
       /\ (analysisType = "security" /\ response = SafeUn) =>
            (metrics.issuesFound = 0 /\ twice.issuesFound = 1)

\* the scorer returned on a text of mixed case whose doubling spells no new
\* keyword, and on the text whose doubling spells "unsafe"
C12_Witness ==
  /\ FirstReturned
  /\ analysisType = "security"
  /\ response = SafeUn
  /\ metrics.improvementsSuggested = 1
  /\ metrics.issuesFound = 0

(***************************************************************************)
(* The fallback responder, getEnhancedMockResponse (lines 169-1465).  Each  *)
(* canned text is represented by its opening lines: the title, the first   *)
(* heading and the first line that depends on the code.  Line breaks are   *)
(* written as spaces, the emoji and the ** marks are left out and a back-  *)
(* tick is written ~.                                                      *)
(***************************************************************************)
\* what mockResponses[name] evaluates to for an inherited property name:
\* a function of Object.prototype, truthy and not a text
InheritedFunction == "<function Object>"

mockResponses(code) ==
  LET isModernInput == detectModernCode(code)
      hasComments == includes(code, "//") \/ includes(code, "/*")
      hasFunctions == includes(code, "function") \/ includes(code, "=>")
      hasClasses == includes(code, "class ")
      hasAsync == includes(code, "async") \/ includes(code, "await")
      hasImports == includes(code, "import") \/ includes(code, "require")
      hasVar == includes(code, "var ")
      hasTryCatch == includes(code, "try") /\ includes(code, "catch")
  IN [modernization |->
        IF isModernInput
        THEN "## Code Modernization Analysis ### Code Quality Assessment: "
             \o "Modern JavaScript Patterns: Your code demonstrates contemporary JavaScript practices"
        ELSE "## Code Modernization Analysis ### Issues Found in Your Code: "
             \o (IF hasVar
                 THEN "Legacy Variable Declaration: Using ~var~ instead of ~const~/~let~ "
                 ELSE ""),
      transformation |->
        "## Code Transformation Analysis ### Current State Assessment: "
        \o (IF isModernInput
            THEN "Good Foundation: Code shows modern patterns"
            ELSE "Legacy Code: Needs significant transformation"),
      architecture |->
        "## Architecture Analysis ### Design Pattern Assessment: "
        \o (IF hasClasses
            THEN "Object-Oriented Design: Proper use of classes and inheritance"
            ELSE "Procedural Code: Consider object-oriented patterns"),
      performance |->
        "## Performance Analysis ### Performance Assessment: "
        \o (IF hasAsync
            THEN "Asynchronous Operations: Good async/await patterns for non-blocking code"
            ELSE "Synchronous Code: Consider async patterns for I/O operations"),
      security |->
        "## Security Analysis ### Security Assessment: "
        \o (IF hasTryCatch
            THEN "Error Handling: Proper exception handling prevents information leakage"
            ELSE "No Error Handling: Add try-catch blocks to prevent crashes"),
      documentation |->
        "## Documentation Analysis ### Documentation Assessment: "
        \o (IF hasComments
            THEN "Code Comments: Good inline documentation present"
            ELSE "Missing Comments: No inline documentation found"),
      cicd |->
        "## CI/CD Analysis ### CI/CD Assessment: "
        \o (IF hasImports
            THEN "Modular Code: Good ES6 module structure for CI/CD pipelines"
            ELSE "Monolithic Code: Consider modularization for better CI/CD"),
      complexity |->
        "## Complexity Analysis ### Complexity Assessment: "
        \o (IF hasFunctions
            THEN "Modular Design: Good function separation with ${functionCount} functions"
            ELSE "Monolithic Code: High complexity - no function separation"),
      reporting |->
        "## Comprehensive Analysis Report ### Overall Assessment: Modernization Level: "
        \o (IF isModernInput THEN "Modern" ELSE "Legacy")]

\* lines 169 and 1464: the parameter default inputCode = '' and
\* mockResponses[analysisType] || mockResponses.modernization
getEnhancedMockResponse(type, code) ==
  LET table == mockResponses(IF code = undefined THEN "" ELSE code)
  IN IF type \in DOMAIN table THEN table[type]
     ELSE IF type \in ObjectPrototypeKeys THEN InheritedFunction
     ELSE table.modernization

(***************************************************************************)
(* The prompt table, lines 1815-1886: each prompt by its first two lines, *)
(* in the order of Object.keys / Object.entries.                          *)
(***************************************************************************)
analysisPrompts ==
  [modernization |-> "Analyze the provided code for modernization opportunities. Focus on:\n  - Outdated syntax and patterns",
   transformation |-> "Transform the provided code to improve its structure and maintainability. Focus on:\n  - Code refactoring opportunities",
   architecture |-> "Review the architecture of the provided code. Analyze:\n  - Overall design patterns",
   performance |-> "Analyze the code for performance optimization opportunities. Focus on:\n  - Algorithm efficiency",
   security |-> "Identify security vulnerabilities in the provided code. Look for:\n  - Input validation issues",
   documentation |-> "Generate comprehensive documentation for the provided code. Include:\n  - Function/class descriptions",
   cicd |-> "Analyze the code for CI/CD pipeline improvements. Focus on:\n  - Build optimization",
   complexity |-> "Analyze and reduce code complexity. Focus on:\n  - Cyclomatic complexity reduction",
   reporting |-> "Generate a comprehensive analysis report covering:\n  - Summary of all findings"]

PromptOrder ==
  <<"modernization", "transformation", "architecture", "performance", "security",
    "documentation", "cicd", "complexity", "reporting">>

\* analysisPrompts[analysisType], line 1923: an inherited property name finds
\* a function of Object.prototype, which a template literal turns into text
promptFor(type) ==
  IF type \in DOMAIN analysisPrompts THEN analysisPrompts[type]
  ELSE IF type \in ObjectPrototypeKeys THEN "function Object() { [native code] }"
  ELSE undefined

\* lines 1933 and 2030
fullPromptOf(prompt, codeContent) ==
  prompt \o "\n\nCode to analyze:\n" \o codeFence \o "\n" \o codeContent \o "\n" \o codeFence

\* only an absent field counted as missing
Falsy_onlyUndefined(v) == v = undefined

\* !v for a text or an absent field
Falsy(v) == v = undefined \/ v = ""

(***************************************************************************)
(* Requests.                                                               *)
(***************************************************************************)
DemoKey == "demo-key-for-hackathon"
LiveKey == "AIzaSyLiveKey"
NoFile == "<no file>"

Endpoints == {"/api/analyze", "/api/analyze-all"}
ApiKeys == {undefined, "", DemoKey, LiveKey}
RequestCodes == {undefined, "", LegacyCode}
Files == {NoFile, "", ModernCode}       \* the content of the uploaded file
RequestTypes == AnalysisTypes \cup {undefined}

Requests ==
  [endpoint : {"/api/analyze"}, apiKey : ApiKeys, code : RequestCodes,
   file : Files, analysisType : RequestTypes]
  \cup
  [endpoint : {"/api/analyze-all"}, apiKey : ApiKeys, code : RequestCodes,
   file : Files, analysisType : {undefined}]

\* lines 1892, 1914-1917 and 1983, 2012-2015: the code after the file is read
codeContentOf(r) == IF r.file # NoFile THEN r.file ELSE r.code

(***************************************************************************)
(* What a generateContent call settles with: a text, or an Error with a    *)
(* message.                                                                *)
(***************************************************************************)
InvalidKeyMessage == "[400 Bad Request] API key not valid. API_KEY_INVALID"
QuotaMessage == "[429 Too Many Requests] You exceeded your current quota"
ExpiredKeyMessage == "[401 Unauthorized] key expired, quota project unknown"
NetworkMessage == "fetch failed"

ErrorMessages == {InvalidKeyMessage, QuotaMessage, ExpiredKeyMessage, NetworkMessage}

LiveTexts ==
  {VulnerableUnsafe,
   " Modern ES6 TypeScript modules async/await Examples: recommend 20% "}

Fulfilled(text) == [ok |-> TRUE, text |-> text, message |-> ""]
Rejected(message) == [ok |-> FALSE, text |-> "", message |-> message]

Replies ==
  { Fulfilled(t) : t \in LiveTexts } \cup { Rejected(m) : m \in ErrorMessages }

\* In a bulk request the calls of these categories may fail; the calls of
\* the other categories succeed.
FlakyTypes == {"security", "cicd"}

BulkReplies(type) ==
  IF type \in FlakyTypes
  THEN { Fulfilled(VulnerableUnsafe) } \cup { Rejected(m) : m \in ErrorMessages }
  ELSE { Fulfilled(VulnerableUnsafe) }

(***************************************************************************)
(* The responses of the two handlers.                                      *)
(***************************************************************************)
HelpUrl == "https://makersuite.google.com/app/apikey"

Status400(error) == [status |-> 400, body |-> [error |-> error]]

isInvalidKeyMessage(message) ==
  \/ includes(message, "API_KEY_INVALID")
  \/ includes(message, "INVALID_API_KEY")
  \/ includes(message, "401")

isQuotaMessage(message) ==
  \/ includes(message, "429")
  \/ includes(message, "quota")
  \/ includes(message, "QUOTA_EXCEEDED")

\* the quota test applied first
catchAnalyze_quotaFirst(message) ==
  IF isQuotaMessage(message)
  THEN [status |-> 429,
        body |-> [error |-> "API Quota Exceeded",
                  details |-> "Your Google Gemini API quota has been exceeded. Please try again later or upgrade your API plan.",
                  helpUrl |-> HelpUrl]]
  ELSE IF isInvalidKeyMessage(message)
  THEN [status |-> 400,
        body |-> [error |-> "Invalid API Key",
                  details |-> "Your Google Gemini API key is invalid or expired. Please check your API key at Google AI Studio and try again.",
                  helpUrl |-> HelpUrl]]
  ELSE [status |-> 500,
        body |-> [error |-> "Analysis failed", details |-> message]]

\* the catch block of /api/analyze, lines 1951-1977
catchAnalyze(message) ==
  IF isInvalidKeyMessage(message)
  THEN [status |-> 400,
        body |-> [error |-> "Invalid API Key",
                  details |-> "Your Google Gemini API key is invalid or expired. Please check your API key at Google AI Studio and try again.",
                  helpUrl |-> HelpUrl]]
  ELSE IF isQuotaMessage(message)
  THEN [status |-> 429,
        body |-> [error |-> "API Quota Exceeded",
                  details |-> "Your Google Gemini API quota has been exceeded. Please try again later or upgrade your API plan.",
                  helpUrl |-> HelpUrl]]
  ELSE [status |-> 500,
        body |-> [error |-> "Analysis failed", details |-> message]]

\* the message of the TypeError the scorer throws: line 61 on a response
\* that is not a text, line 108 on a category without keyword lists
typeErrorMessage(resp) ==
  IF resp \in {undefined, InheritedFunction}
  THEN "response.toLowerCase is not a function"
  ELSE "Cannot read properties of undefined (reading 'filter')"

\* lines 1901-1911: the demo branch of /api/analyze
demoAnalyze(type, codeContent) ==
  LET mockResponse == getEnhancedMockResponse(type, codeContent)
      m == calculateDetailedMetrics(type, mockResponse, codeContent)
  IN IF m = TypeError THEN catchAnalyze(typeErrorMessage(mockResponse))
     ELSE [status |-> 200,
           body |-> [analysis |-> mockResponse,
                     score |-> m.overallScore,
                     metrics |-> m,
                     demoMode |-> TRUE]]

\* lines 1935-1949: the reply of the model scored and sent
liveAnalyze(type, analysisResult, codeContent) ==
  LET m == calculateDetailedMetrics(type, analysisResult, codeContent)
  IN IF m = TypeError THEN catchAnalyze(typeErrorMessage(analysisResult))
     ELSE [status |-> 200,
           body |-> [success |-> TRUE,
                     analysisType |-> type,
                     result |-> analysisResult,
                     score |-> m.overallScore,
                     metrics |-> m,
                     timestamp |-> now]]

\* the entry of the demo branch carrying the improvement potential as score
demoEntry_potentialAsScore(type, codeContent) ==
  LET mockResponse == getEnhancedMockResponse(type, codeContent)
      m == calculateDetailedMetrics(type, mockResponse, codeContent)
  IN [result |-> mockResponse, score |-> m.improvementPotential, metrics |-> m]

\* lines 1995-2003: one entry of the demo branch of /api/analyze-all
demoEntry(type, codeContent) ==
  LET mockResponse == getEnhancedMockResponse(type, codeContent)
      m == calculateDetailedMetrics(type, mockResponse, codeContent)
  IN [result |-> mockResponse, score |-> m.overallScore, metrics |-> m]

\* the entry of a fulfilled category scored on the empty text
liveEntry_scoredOnEmpty(type, analysisResult, codeContent) ==
  LET m == calculateDetailedMetrics(type, "", codeContent)
  IN [result |-> analysisResult, score |-> m.overallScore, metrics |-> m]

\* lines 2031-2035: one category of /api/analyze-all fulfilled
liveEntry(type, analysisResult, codeContent) ==
  LET m == calculateDetailedMetrics(type, analysisResult, codeContent)
  IN [result |-> analysisResult, score |-> m.overallScore, metrics |-> m]

\* a quota rejection answered with the canned text, scored like a reply
errorEntry_cannedOnQuota(type, message) ==
  IF isQuotaMessage(message)
  THEN demoEntry(type, undefined)
  ELSE [result |-> "Analysis Error An error occurred during analysis: " \o message,
        score |-> 0,
        metrics |-> bulkErrorMetrics(type)]

\* lines 2036-2100: one category of /api/analyze-all rejected
errorEntry(type, message) ==
  [result |->
     IF isInvalidKeyMessage(message)
     THEN "Invalid API Key Error Your Google Gemini API key is invalid or expired."
     ELSE IF isQuotaMessage(message)
     THEN "API Quota Exceeded Your Google Gemini API quota has been exceeded. Error Details: "
          \o message
     ELSE "Analysis Error An error occurred during analysis: " \o message,
   score |-> 0,
   metrics |-> bulkErrorMetrics(type)]

(***************************************************************************)
(* The handlers as a state machine.  A request arrives; the handler runs   *)
(* to its response or to its awaits; each awaited generateContent call     *)
(* settles; /api/analyze-all answers when all have settled.                *)
(***************************************************************************)
\* the arguments of a call, as recorded in mocked and scored
mockCall(type, code) == [analysisType |-> type, inputCode |-> code]
scoreCall(type, text, code) == [analysisType |-> type, response |-> text, inputCode |-> code]

\* model.generateContent(fullPrompt) on a model made with the request's key
generateContent(prompt, codeContent, apiKey) ==
  [fullPrompt |-> fullPromptOf(prompt, codeContent), apiKey |-> apiKey]

\* every category called twice
bulkCalls_twice(codeContent, apiKey) ==
  [i \in 1..(2 * Len(PromptOrder)) |->
     generateContent(analysisPrompts[PromptOrder[((i - 1) % Len(PromptOrder)) + 1]],
                     codeContent, apiKey)]

\* lines 2028-2031: Object.entries(analysisPrompts).map(...) runs every
\* callback up to its first await
bulkCalls(codeContent, apiKey) ==
  [i \in 1..Len(PromptOrder) |->
     generateContent(analysisPrompts[PromptOrder[i]], codeContent, apiKey)]

\* a function extended or overwritten at one key
Put(f, key, value) ==
  [k \in DOMAIN f \cup {key} |-> IF k = key THEN value ELSE f[k]]

Handled == req = NoRequest \/ res # NoResponse

NotStarted == req # NoRequest /\ res = NoResponse /\ pending = {} /\ calls = <<>>

\* a request arrives, the one before it (if any) answered
Receive ==
  /\ Handled
  /\ req' \in Requests
  /\ res' = NoResponse
  /\ pending' = {}
  /\ calls' = <<>>
  /\ settled' = <<>>
  /\ results' = <<>>
  /\ mocked' = {}
  /\ scored' = {}
  /\ UNCHANGED scorerVars
  /\ UNCHANGED <<other, client, uploads, incoming>>

\* POST /api/analyze, lines 1889-1935, up to the response or the await
Analyze ==
  /\ NotStarted
  /\ req.endpoint = "/api/analyze"
  /\ IF Falsy(req.apiKey)
     THEN /\ res' = Status400("API key is required")
          /\ UNCHANGED <<pending, calls, mocked, scored>>
     ELSE IF req.apiKey = DemoKey
     THEN LET mockResponse == getEnhancedMockResponse(req.analysisType, req.code)
          IN /\ res' = demoAnalyze(req.analysisType, req.code)
             /\ mocked' = {mockCall(req.analysisType, req.code)}
             /\ scored' = {scoreCall(req.analysisType, mockResponse, req.code)}
             /\ UNCHANGED <<pending, calls>>
     ELSE IF Falsy(codeContentOf(req))
     THEN /\ res' = Status400("No code provided")
          /\ UNCHANGED <<pending, calls, mocked, scored>>
     ELSE IF Falsy(promptFor(req.analysisType))
     THEN /\ res' = Status400("Invalid analysis type")
          /\ UNCHANGED <<pending, calls, mocked, scored>>
     ELSE /\ calls' = <<generateContent(promptFor(req.analysisType),
                                        codeContentOf(req), req.apiKey)>>
          /\ pending' = {req.analysisType}
          /\ UNCHANGED <<res, mocked, scored>>
  /\ UNCHANGED <<req, settled, results>>
  /\ UNCHANGED scorerVars
  /\ UNCHANGED <<other, client, uploads, incoming>>

\* POST /api/analyze, lines 1935-1977: the awaited call settles
AnalyzeSettle ==
  /\ req # NoRequest
  /\ req.endpoint = "/api/analyze"
  /\ pending # {}
  /\ \E reply \in Replies :
       /\ settled' = Put(settled, req.analysisType, reply)
       /\ IF reply.ok
          THEN /\ res' = liveAnalyze(req.analysisType, reply.text, codeContentOf(req))
               /\ scored' = scored \cup
                    {scoreCall(req.analysisType, reply.text, codeContentOf(req))}
          ELSE /\ res' = catchAnalyze(reply.message)
               /\ UNCHANGED scored
  /\ pending' = {}
  /\ UNCHANGED <<req, calls, results, mocked>>
  /\ UNCHANGED scorerVars
  /\ UNCHANGED <<other, client, uploads, incoming>>

\* POST /api/analyze-all, lines 1980-2030, up to the response or the awaits
AnalyzeAll ==
  /\ NotStarted
  /\ req.endpoint = "/api/analyze-all"
  /\ IF Falsy(req.apiKey)
     THEN /\ res' = Status400("API key is required")
          /\ UNCHANGED <<pending, calls, results, mocked, scored>>
     ELSE IF req.apiKey = DemoKey
     THEN /\ res' = [status |-> 200,
                     body |-> [results |-> [t \in KnownTypes |-> demoEntry(t, req.code)],
                               demoMode |-> TRUE]]
          /\ mocked' = { mockCall(t, req.code) : t \in KnownTypes }
          /\ scored' = { scoreCall(t, getEnhancedMockResponse(t, req.code), req.code) :
                           t \in KnownTypes }
          /\ UNCHANGED <<pending, calls, results>>
     ELSE IF Falsy(codeContentOf(req))
     THEN /\ res' = Status400("No code provided")
          /\ UNCHANGED <<pending, calls, results, mocked, scored>>
     ELSE /\ calls' = bulkCalls(codeContentOf(req), req.apiKey)
          /\ pending' = KnownTypes
          /\ UNCHANGED <<res, results, mocked, scored>>
  /\ UNCHANGED <<req, settled>>
  /\ UNCHANGED scorerVars
  /\ UNCHANGED <<other, client, uploads, incoming>>

\* the records stored in the order in which the calls completed, whatever
\* their category
Collect_byArrival(f, type, entry) ==
  Put(f, PromptOrder[Cardinality(DOMAIN f) + 1], entry)

\* lines 2105-2107: results[type] = { result, score, metrics }, the record of
\* a callback stored under the category the callback carries
Collect(f, type, entry) == Put(f, type, entry)

\* POST /api/analyze-all, lines 2031-2100: the call of one category settles
\* with one of the replies it may get
BulkSettleWith(repliesOf) ==
  /\ req # NoRequest
  /\ req.endpoint = "/api/analyze-all"
  /\ \E type \in pending :
       /\ \E reply \in repliesOf[type] :
            /\ settled' = Put(settled, type, reply)
            /\ IF reply.ok
               THEN /\ results' = Collect(results, type,
                                          liveEntry(type, reply.text, codeContentOf(req)))
                    /\ scored' = scored \cup
                         {scoreCall(type, reply.text, codeContentOf(req))}
               ELSE /\ results' = Collect(results, type, errorEntry(type, reply.message))
                    /\ UNCHANGED scored
       /\ pending' = pending \ {type}
  /\ UNCHANGED <<req, res, calls, mocked>>
  /\ UNCHANGED scorerVars
  /\ UNCHANGED <<other, client, uploads, incoming>>

BulkSettle == BulkSettleWith([type \in KnownTypes |-> BulkReplies(type)])

\* a join that is over as soon as one of the calls has settled
PromiseAll_firstSettled == calls # <<>> /\ pending # KnownTypes

\* line 2103: await Promise.all(analysisPromises) is over when every one of
\* the promises is fulfilled (the callbacks catch their own rejections)
PromiseAll == calls # <<>> /\ pending = {}

\* POST /api/analyze-all, lines 2103-2113: Promise.all fulfilled
BulkRespond ==
  /\ req # NoRequest
  /\ req.endpoint = "/api/analyze-all"
  /\ res = NoResponse
  /\ PromiseAll
  /\ res' = [status |-> 200,
             body |-> [success |-> TRUE, results |-> results, timestamp |-> now]]
  /\ UNCHANGED <<req, pending, calls, settled, results, mocked, scored>>
  /\ UNCHANGED scorerVars
  /\ UNCHANGED <<other, client, uploads, incoming>>

InitServer ==
  /\ analysisType = undefined
  /\ response = undefined
  /\ inputCode = undefined
  /\ metrics = NoRecord
  /\ firstMetrics = NoRecord
  /\ errorMetrics = NoRecord
  /\ detected = NoRecord
  /\ now = 0
  /\ genAI = undefined
  /\ ServerIdle
  /\ client = NoClient
  /\ uploads = <<>>
  /\ incoming = NoRequest

NextServer == Receive \/ Analyze \/ AnalyzeSettle \/ AnalyzeAll \/ BulkSettle \/ BulkRespond

SpecServer == InitServer /\ [][NextServer]_vars

(***************************************************************************)
(* Properties of the handlers.                                             *)
(***************************************************************************)
Answered == req # NoRequest /\ res # NoResponse

\* the fields of a response body that carry an analysis text or a score
ResultFields == {"result", "analysis", "results", "score", "metrics"}

\* C13: a request to /api/analyze or /api/analyze-all whose apiKey is missing
\* or empty is answered 400 "API key is required" whatever its other fields,
\* with no upstream call, no fallback text generated and nothing scored.
C13_ApiKeyRequired ==
  (req # NoRequest /\ req.apiKey \in {undefined, ""}) =>
    /\ calls = <<>>
    /\ pending = {}
    /\ mocked = {}
    /\ scored = {}
    /\ res # NoResponse =>
         /\ res.status = 400
         /\ res.body = [error |-> "API key is required"]

\* an empty key with a code, a file and a known category, answered
C13_Witness ==
  /\ Answered
  /\ req.apiKey = ""
  /\ req.code = LegacyCode
  /\ req.file = ModernCode
  /\ req.analysisType = "security"
  /\ res.status = 400

\* C14: a request to /api/analyze or /api/analyze-all with a non-empty apiKey
\* (any value, the demo key included) and neither a code text nor an uploaded
\* file is answered 400 "No code provided", with no upstream call and no
\* result text or score returned.
C14_NoCodeRejected ==
  (req # NoRequest /\ req.apiKey \notin {undefined, ""}
     /\ req.code \in {undefined, ""} /\ req.file = NoFile) =>
    /\ calls = <<>>
    /\ res # NoResponse =>
         /\ res.status = 400
         /\ res.body = [error |-> "No code provided"]
         /\ DOMAIN res.body \cap ResultFields = {}

\* C15: a request to /api/analyze with a non-empty apiKey and a code payload
\* whose analysisType is not one of the 9 known identifiers (or is absent) is
\* rejected with 400 "Invalid analysis type"; the check precedes any upstream
\* call and any use of the scorer, so no score is returned for it.
C15_UnknownTypeRejected ==
  (req # NoRequest /\ req.endpoint = "/api/analyze"
     /\ req.apiKey \notin {undefined, ""}
     /\ codeContentOf(req) \notin {undefined, ""}
     /\ req.analysisType \notin KnownTypes) =>
    /\ calls = <<>>
    /\ scored = {}
    /\ res # NoResponse =>
         /\ res.status = 400
         /\ res.body = [error |-> "Invalid analysis type"]

\* the codes a request's handling has used: in the prompts sent upstream, in
\* the calls of the fallback responder and in the calls of the scorer
PromptsWith(code) ==
  { fullPromptOf(p, code) :
      p \in { promptFor(t) : t \in KnownTypes \cup ObjectPrototypeKeys } }

UsesOnly(code) ==
  /\ \A i \in DOMAIN calls : calls[i].fullPrompt \in PromptsWith(code)
  /\ \A c \in mocked : c.inputCode = code
  /\ \A c \in scored : c.inputCode = code

\* C16: exactly one code payload is used per request and the uploaded file
\* takes precedence: on either endpoint, whenever a file is uploaded, the
\* code placed in the prompt, given to the fallback responder and given to
\* the scorer is the file's content, whether or not a text code field is
\* also sent; the text field is used only when no file is present.
C16_FileTakesPrecedence ==
  req # NoRequest =>
    IF req.file # NoFile THEN UsesOnly(req.file) ELSE UsesOnly(req.code)

\* the call of /api/analyze was rejected with this message
AnalyzeRejectedWith(message) ==
  /\ req # NoRequest
  /\ req.endpoint = "/api/analyze"
  /\ settled # <<>>
  /\ settled[req.analysisType] = Rejected(message)

CallsFor(type) ==
  { i \in DOMAIN calls :
      /\ Len(analysisPrompts[type]) <= Len(calls[i].fullPrompt)
      /\ SubSeq(calls[i].fullPrompt, 1, Len(analysisPrompts[type])) = analysisPrompts[type] }

\* C18: no upstream call is retried: while one request is handled, the
\* generate-content call is issued at most once by /api/analyze and at most
\* once per category (at most 9 in total) by /api/analyze-all, whether the
\* call succeeds or fails.
C18_NoRetry ==
  req # NoRequest =>
    /\ req.endpoint = "/api/analyze" => Len(calls) <= 1
    /\ req.endpoint = "/api/analyze-all" =>
         /\ Len(calls) <= 9
         /\ \A type \in KnownTypes : Cardinality(CallsFor(type)) <= 1
    /\ \A type \in KnownTypes :
         (settled # <<>> /\ type \in DOMAIN settled) => Cardinality(CallsFor(type)) = 1

\* a bulk request answered after the calls of two categories were rejected
C18_Witness ==
  /\ Answered
  /\ req.endpoint = "/api/analyze-all"
  /\ Len(calls) = 9
  /\ settled # <<>>
  /\ DOMAIN settled = KnownTypes
  /\ ~settled["security"].ok
  /\ ~settled["cicd"].ok

\* the canned text and its record for a category and either reading of "the
\* request's code": the text field, or the payload with the file preferred
DemoResults(type) ==
  { [text |-> getEnhancedMockResponse(type, code),
     metrics |-> calculateDetailedMetrics(type, getEnhancedMockResponse(type, code), code)] :
      code \in {req.code, codeContentOf(req)} }

\* C19: with the demo key neither endpoint issues an upstream call; the text
\* returned is the fallback responder's output for the requested category and
\* the request's code, the score and metrics returned are what the scorer
\* computes on that text, and the response is flagged demoMode = true.
C19_DemoMode ==
  (req # NoRequest /\ req.apiKey = DemoKey) =>
    /\ calls = <<>>
    /\ pending = {}
    /\ res # NoResponse =>
         /\ res.status = 200
         /\ "demoMode" \in DOMAIN res.body
         /\ res.body.demoMode = TRUE
         /\ req.endpoint = "/api/analyze" =>
              \E d \in DemoResults(req.analysisType) :
                /\ res.body.analysis = d.text
                /\ res.body.metrics = d.metrics
                /\ res.body.score = d.metrics.overallScore
         /\ req.endpoint = "/api/analyze-all" =>
              \A type \in KnownTypes :
                \E d \in DemoResults(type) :
                  /\ res.body.results[type].result = d.text
                  /\ res.body.results[type].metrics = d.metrics
                  /\ res.body.results[type].score = d.metrics.overallScore

\* the call of a category of /api/analyze-all was rejected with a message
\* that passes the quota test of line 2061 (and not the invalid-key test
\* applied before it)
BulkQuotaFailure(type) ==
  /\ req # NoRequest
  /\ req.endpoint = "/api/analyze-all"
  /\ settled # <<>>
  /\ type \in DOMAIN settled
  /\ ~settled[type].ok
  /\ \E w \in {"429", "quota", "QUOTA_EXCEEDED"} : includes(settled[type].message, w)
  /\ ~\E w \in {"API_KEY_INVALID", "INVALID_API_KEY", "401"} :
        includes(settled[type].message, w)

BulkRequest ==
  [endpoint |-> "/api/analyze-all", apiKey |-> LiveKey, code |-> LegacyCode,
   file |-> NoFile, analysisType |-> undefined]

ErrorOf(type) ==
  LET i == CHOOSE j \in DOMAIN PromptOrder : PromptOrder[j] = type
  IN <<InvalidKeyMessage, QuotaMessage, NetworkMessage>>[(i % 3) + 1]

AnyBulkReplies(type) == { Fulfilled(VulnerableUnsafe), Rejected(ErrorOf(type)) }

BulkSettleAny == BulkSettleWith([type \in KnownTypes |-> AnyBulkReplies(type)])

InitBulk ==
  /\ analysisType = undefined
  /\ response = undefined
  /\ inputCode = undefined
  /\ metrics = NoRecord
  /\ firstMetrics = NoRecord
  /\ errorMetrics = NoRecord
  /\ detected = NoRecord
  /\ now = 0
  /\ genAI = undefined
  /\ req = BulkRequest
  /\ res = NoResponse
  /\ pending = {}
  /\ calls = <<>>
  /\ settled = <<>>
  /\ results = <<>>
  /\ mocked = {}
  /\ scored = {}
  /\ other = NoHandler
  /\ client = NoClient
  /\ uploads = <<>>
  /\ incoming = NoRequest

NextBulk == AnalyzeAll \/ BulkSettleAny \/ BulkRespond

SpecBulk == InitBulk /\ [][NextBulk]_vars

(***************************************************************************)
(* Properties of the live path of /api/analyze-all.                        *)
(***************************************************************************)
LiveBulk ==
  /\ req # NoRequest
  /\ req.endpoint = "/api/analyze-all"
  /\ req.apiKey \notin {undefined, "", DemoKey}
  /\ calls # <<>>

Failed == IF settled = <<>> THEN {} ELSE { t \in DOMAIN settled : ~settled[t].ok }
Succeeded == IF settled = <<>> THEN {} ELSE { t \in DOMAIN settled : settled[t].ok }

SpecBulkFair == InitBulk /\ [][NextBulk]_vars /\ WF_vars(BulkRespond)

AllSettled == settled # <<>> /\ DOMAIN settled = KnownTypes

EntryOf(type) ==
  IF settled[type].ok
  THEN liveEntry(type, settled[type].text, codeContentOf(req))
  ELSE errorEntry(type, settled[type].message)

\* C23: in /api/analyze-all all 9 upstream calls are started (in one
\* synchronous stretch, one per category) before the handler waits for any
\* of them, and the results map of the answer is the same for every order in
\* which the 9 calls complete: it is the map from each category to the entry
\* fixed by the outcome of that category's call, whenever the calls completed.
C23_OrderIndependent ==
  LiveBulk =>
    /\ Len(calls) = 9
    /\ \A type \in KnownTypes : CallsFor(type) # {}
    /\ (settled # <<>> => DOMAIN settled = KnownTypes \ pending)
    /\ (settled # <<>> => DOMAIN results = DOMAIN settled)
    /\ (res # NoResponse =>
          res.body.results = [type \in KnownTypes |-> EntryOf(type)])

\* answered after the calls completed in an order other than the one they
\* were started in: security failed, the rest succeeded
C23_Witness ==
  /\ LiveBulk
  /\ res # NoResponse
  /\ Failed = {"security"}
  /\ res.body.results["security"] = errorEntry("security", ErrorOf("security"))
  /\ res.body.results["modernization"].score > 0

\* C24: every 200 response of /api/analyze, in live mode and in demo mode
\* alike, carries the analysis text in the field "result" (the field the
\* client reads), together with an integer score and a metrics record.
C24_TextInResult ==
  (Answered /\ req.endpoint = "/api/analyze" /\ res.status = 200) =>
    /\ {"result", "score", "metrics"} \subseteq DOMAIN res.body
    /\ res.body.score \in Int
    /\ res.body.result \in STRING

(***************************************************************************)
(* GET /api/analysis-types, lines 2124-2132.                               *)
(***************************************************************************)
RECURSIVE spaceBeforeUpperCase(_)
\* replace(/([A-Z])/g, ' $1'): a space put before every upper-case letter
spaceBeforeUpperCase(s) ==
  IF s = "" THEN ""
  ELSE LET c == SubSeq(s, 1, 1)
       IN (IF c \in DOMAIN UpperToLower THEN " " \o c ELSE c)
            \o spaceBeforeUpperCase(SubSeq(s, 2, Len(s)))

\* the text up to its end, line breaks included
firstLine_wholeText(s) == s

\* split('\n')[0]: the text up to its first line break
firstLine(s) ==
  LET breaks == { i \in 1..Len(s) : SubSeq(s, i, i) = "\n" }
  IN IF breaks = {} THEN s
     ELSE SubSeq(s, 1, (CHOOSE i \in breaks : \A j \in breaks : i <= j) - 1)

\* lines 2125-2129: the entry of one key of the prompt table
typeEntry(key) ==
  [id |-> key,
   name |-> toUpperCase(SubSeq(key, 1, 1)) \o spaceBeforeUpperCase(SubSeq(key, 2, Len(key))),
   description |-> firstLine(analysisPrompts[key])]

\* Object.keys(analysisPrompts).map(...)
types == [i \in 1..Len(PromptOrder) |-> typeEntry(PromptOrder[i])]

TypesRequest ==
  [endpoint |-> "/api/analysis-types", apiKey |-> undefined, code |-> undefined,
   file |-> NoFile, analysisType |-> undefined]

\* a GET /api/analysis-types arrives, the request before it (if any) answered
ReceiveTypes ==
  /\ Handled
  /\ req' = TypesRequest
  /\ res' = NoResponse
  /\ pending' = {}
  /\ calls' = <<>>
  /\ settled' = <<>>
  /\ results' = <<>>
  /\ mocked' = {}
  /\ scored' = {}
  /\ UNCHANGED scorerVars
  /\ UNCHANGED <<other, client, uploads, incoming>>

\* lines 2124-2132: res.json(types)
AnalysisTypesList ==
  /\ NotStarted
  /\ req.endpoint = "/api/analysis-types"
  /\ res' = [status |-> 200, body |-> types]
  /\ UNCHANGED <<req, pending, calls, settled, results, mocked, scored>>
  /\ UNCHANGED scorerVars
  /\ UNCHANGED <<other, client, uploads, incoming>>

NextTypes == NextServer \/ ReceiveTypes \/ AnalysisTypesList

SpecTypes == InitServer /\ [][NextTypes]_vars

\* C25: GET /api/analysis-types returns exactly 9 entries whose ids are
\* exactly the 9 category identifiers, each with a name (the id with its
\* first letter in upper case) and a description (the first line of the
\* category's prompt), and the list is the same whatever requests were
\* handled before: no request modifies the prompt table.
C25_StaticTypes ==
  (Answered /\ req.endpoint = "/api/analysis-types") =>
    /\ res.status = 200
    /\ Len(res.body) = 9
    /\ { res.body[i].id : i \in DOMAIN res.body } = KnownTypes
    /\ \A i \in DOMAIN res.body :
         /\ DOMAIN res.body[i] = {"id", "name", "description"}
         /\ Len(res.body[i].name) = Len(res.body[i].id)
         /\ toLowerCase(res.body[i].name) = res.body[i].id
         /\ res.body[i].name # res.body[i].id
         /\ res.body[i].description # ""
         /\ ~includes(res.body[i].description, "\n")
         /\ includes(analysisPrompts[res.body[i].id], res.body[i].description \o "\n")
    /\ res.body[5] =
         [id |-> "security", name |-> "Security",
          description |-> "Identify security vulnerabilities in the provided code. Look for:"]

\* the list answered, its seventh entry that of cicd
C25_Witness ==
  /\ Answered
  /\ req.endpoint = "/api/analysis-types"
  /\ res.body[7].id = "cicd"
  /\ res.body[7].name = "Cicd"

(***************************************************************************)
(* Two requests in flight at once.  The event loop runs one handler at a   *)
(* time: req, res and the handler's locals are those of the request it is  *)
(* running, other holds those of the second request; Switch is the loop    *)
(* turning from one to the other at an await or between two callbacks.     *)
(* upload.single('file') stores the file of a request before the route     *)
(* callback is entered, under the name lines 19-21 give it.                *)
(***************************************************************************)
OtherKey == "AIzaSyOtherKey"

\* the requests of the first client: a file app.js uploaded, one category or all
FirstRequests ==
  { [endpoint |-> e, apiKey |-> LiveKey, code |-> undefined, file |-> LegacyCode,
     analysisType |-> IF e = "/api/analyze" THEN "modernization" ELSE undefined,
     originalname |-> "app.js", path |-> undefined] : e \in Endpoints }

\* the requests of the second client, with another key: a file uploaded
\* under either name, or the code sent as text
SecondRequests ==
  { [endpoint |-> "/api/analyze", apiKey |-> OtherKey, code |-> undefined,
     file |-> ModernCode, analysisType |-> "security",
     originalname |-> n, path |-> undefined] : n \in {"app.js", "main.js"} }
  \cup
  { [endpoint |-> "/api/analyze", apiKey |-> OtherKey, code |-> ModernCode,
     file |-> NoFile, analysisType |-> "security",
     originalname |-> undefined, path |-> undefined] }

\* lines 19-21: Date.now() + '-' + file.originalname
filename(ms, originalname) == ToString(ms) \o "-" \o originalname

\* fs.readFileSync(req.file.path, 'utf8'), lines 1916 and 2014
readFileSync(path) == uploads[path]

Stored(r) == r.file = NoFile \/ r.path # undefined

\* lines 15-25: multer's disk storage writes the file of the incoming
\* request under uploads/, replacing what the path held
Upload ==
  /\ incoming # NoRequest
  /\ req = NoRequest
  /\ ~Stored(incoming)
  /\ LET path == filename(now, incoming.originalname)
     IN /\ uploads' = Put(uploads, path, incoming.file)
        /\ incoming' = [incoming EXCEPT !.path = path]
  /\ UNCHANGED handlerVars
  /\ UNCHANGED scorerVars
  /\ UNCHANGED <<other, client>>

\* the route callback is entered once the upload is over; the handler runs
\* without a pause from its first line to the file read of line 1916 or
\* 2014, so what it reads is what the path holds now
Enter ==
  /\ incoming # NoRequest
  /\ req = NoRequest
  /\ Stored(incoming)
  /\ req' = [endpoint |-> incoming.endpoint, apiKey |-> incoming.apiKey,
             code |-> incoming.code, analysisType |-> incoming.analysisType,
             file |-> IF incoming.file = NoFile THEN NoFile
                      ELSE readFileSync(incoming.path)]
  /\ UNCHANGED <<res, pending, calls, settled, results, mocked, scored>>
  /\ UNCHANGED scorerVars
  /\ UNCHANGED <<other, client, uploads, incoming>>

\* a millisecond passes while a file is still to be stored
Tick ==
  /\ now < MaxClock
  /\ \/ (incoming # NoRequest /\ ~Stored(incoming))
     \/ (other # NoHandler /\ other.incoming # NoRequest /\ ~Stored(other.incoming))
  /\ now' = now + 1
  /\ UNCHANGED <<analysisType, response, inputCode, metrics, firstMetrics,
                 errorMetrics, detected, genAI>>
  /\ UNCHANGED serverVars
  /\ UNCHANGED <<client, uploads, incoming>>

\* the event loop turns to the other request
Switch ==
  /\ other # NoHandler
  /\ other' = [req |-> req, res |-> res, pending |-> pending, calls |-> calls,
               settled |-> settled, results |-> results, mocked |-> mocked,
               scored |-> scored, incoming |-> incoming]
  /\ req' = other.req
  /\ res' = other.res
  /\ pending' = other.pending
  /\ calls' = other.calls
  /\ settled' = other.settled
  /\ results' = other.results
  /\ mocked' = other.mocked
  /\ scored' = other.scored
  /\ incoming' = other.incoming
  /\ UNCHANGED scorerVars
  /\ UNCHANGED <<client, uploads>>

PositionOf(type) == CHOOSE i \in DOMAIN PromptOrder : PromptOrder[i] = type

\* the replies the calls of a bulk request may get while a second request
\* is in flight: the calls settle in the order they were issued (the entries
\* do not depend on the order) and the call of security alone may fail
ConcurrentReplies(type) ==
  IF \E earlier \in pending : PositionOf(earlier) < PositionOf(type) THEN {}
  ELSE IF type = "security"
  THEN {Fulfilled(VulnerableUnsafe), Rejected(QuotaMessage)}
  ELSE {Fulfilled(VulnerableUnsafe)}

BulkSettleConcurrent ==
  BulkSettleWith([type \in KnownTypes |-> ConcurrentReplies(type)])

InitConcurrent ==
  /\ analysisType = undefined
  /\ response = undefined
  /\ inputCode = undefined
  /\ metrics = NoRecord
  /\ firstMetrics = NoRecord
  /\ errorMetrics = NoRecord
  /\ detected = NoRecord
  /\ now = 0
  /\ genAI = undefined
  /\ req = NoRequest
  /\ res = NoResponse
  /\ pending = {}
  /\ calls = <<>>
  /\ settled = <<>>
  /\ results = <<>>
  /\ mocked = {}
  /\ scored = {}
  /\ incoming \in FirstRequests
  /\ \E second \in SecondRequests :
       other = [req |-> NoRequest, res |-> NoResponse, pending |-> {},
                calls |-> <<>>, settled |-> <<>>, results |-> <<>>,
                mocked |-> {}, scored |-> {}, incoming |-> second]
  /\ client = NoClient
  /\ uploads = <<>>

NextConcurrent ==
  \/ Upload \/ Enter \/ Tick \/ Switch
  \/ Analyze \/ AnalyzeSettle \/ AnalyzeAll \/ BulkSettleConcurrent \/ BulkRespond

SpecConcurrent == InitConcurrent /\ [][NextConcurrent]_vars

\* the requests in flight: the one the loop is running and the other
InFlight ==
  {[req |-> req, res |-> res, calls |-> calls, incoming |-> incoming]}
  \cup (IF other = NoHandler THEN {}
        ELSE {[req |-> other.req, res |-> other.res, calls |-> other.calls,
               incoming |-> other.incoming]})

\* every upstream call of every request in flight is made with the key that
\* request brought; the module-level handle is never assigned
OwnKeyOnly ==
  /\ genAI = undefined
  /\ \A h \in InFlight :
       \A i \in DOMAIN h.calls : h.calls[i].apiKey = h.incoming.apiKey

\* C26: requests handled concurrently do not interfere: with two requests of
\* different API keys in flight, every upstream call is made with the key of
\* its own request, the module-level genAI is never assigned, and what each
\* handler works on and sends to the model is its own request's input: the
\* code content of a handler is the text or the file its own client sent.
C26_NoInterference ==
  /\ OwnKeyOnly
  /\ \A h \in InFlight :
       h.req # NoRequest =>
         /\ h.req.file = h.incoming.file
         /\ \A i \in DOMAIN h.calls :
              includes(h.calls[i].fullPrompt,
                       IF h.incoming.file # NoFile THEN h.incoming.file
                       ELSE h.incoming.code)

(***************************************************************************)
(* The fallback responder called on its own: getEnhancedMockResponse,      *)
(* lines 169-1465, on every category and every code of the bounds.         *)
(***************************************************************************)
InitMock ==
  /\ analysisType \in RequestTypes
  /\ inputCode \in CodeTexts
  /\ response = undefined
  /\ metrics = NoRecord
  /\ firstMetrics = NoRecord
  /\ errorMetrics = NoRecord
  /\ detected = NoRecord
  /\ now = 0
  /\ genAI = undefined
  /\ ServerIdle
  /\ client = NoClient
  /\ uploads = <<>>
  /\ incoming = NoRequest

\* const mockResponse = getEnhancedMockResponse(analysisType, inputCode)
MockResponse ==
  /\ mocked = {}
  /\ response' = getEnhancedMockResponse(analysisType, inputCode)
  /\ mocked' = {mockCall(analysisType, inputCode)}
  /\ UNCHANGED <<analysisType, inputCode, metrics, firstMetrics, errorMetrics,
                 detected, now, genAI>>
  /\ UNCHANGED <<req, res, pending, calls, settled, results, scored, other>>
  /\ UNCHANGED <<client, uploads, incoming>>

NextMock == MockResponse

SpecMock == InitMock /\ [][NextMock]_vars

\* C27: getEnhancedMockResponse never fails: for every category (known,
\* unknown or absent) and every code (empty or absent included) it returns a
\* text, and for a category that is not one of the 9 known identifiers the
\* text is the one returned for "modernization" with the same code.
C27_AlwaysText ==
  mocked # {} =>
    /\ response # InheritedFunction
    /\ response # undefined
    /\ analysisType \notin KnownTypes =>
         response = getEnhancedMockResponse("modernization", inputCode)

(***************************************************************************)
(* The handlers when the upstream call may also be rejected with a value   *)
(* that carries no message (a thrown object without a message property):   *)
(* error.message is then undefined and error.message.includes(...) in the  *)
(* catch (lines 1955 and 2040) throws a TypeError of its own.              *)
(***************************************************************************)
NoMessageError == "Cannot read properties of undefined (reading 'includes')"

ThrownReplies == Replies \cup {Rejected(undefined)}

ThrownBulkReplies(type) ==
  IF type \in FlakyTypes
  THEN {Fulfilled(VulnerableUnsafe), Rejected(QuotaMessage), Rejected(undefined)}
  ELSE {Fulfilled(VulnerableUnsafe)}

\* The promise of the route callback of /api/analyze is rejected (the catch
\* of lines 1951-1977 threw).  Nothing in index.js observes it: Express 4
\* ignores the promise and no response is ever sent; a router that forwards
\* rejections to its error handler answers 500.
HandlerRejected ==
  {NoResponse, [status |-> 500, body |-> [error |-> "Internal Server Error"]]}

\* POST /api/analyze, lines 1935-1977: the awaited call settles
AnalyzeSettleThrown ==
  /\ req # NoRequest
  /\ req.endpoint = "/api/analyze"
  /\ pending # {}
  /\ \E reply \in ThrownReplies :
       /\ settled' = Put(settled, req.analysisType, reply)
       /\ IF reply.ok
          THEN /\ res' = liveAnalyze(req.analysisType, reply.text, codeContentOf(req))
               /\ scored' = scored \cup
                    {scoreCall(req.analysisType, reply.text, codeContentOf(req))}
          ELSE IF reply.message = undefined
          THEN /\ res' \in HandlerRejected
               /\ UNCHANGED scored
          ELSE /\ res' = catchAnalyze(reply.message)
               /\ UNCHANGED scored
  /\ pending' = {}
  /\ UNCHANGED <<req, calls, results, mocked>>
  /\ UNCHANGED scorerVars
  /\ UNCHANGED <<other, client, uploads, incoming>>

\* POST /api/analyze-all, lines 2031-2100 and 2115-2121: the call of one
\* category settles; when the catch of its callback throws, the callback's
\* promise is rejected, Promise.all is rejected at once and the outer catch
\* answers 500, unless an earlier rejection already did
BulkSettleThrown ==
  /\ req # NoRequest
  /\ req.endpoint = "/api/analyze-all"
  /\ \E type \in pending :
       /\ \E reply \in ThrownBulkReplies(type) :
            /\ settled' = Put(settled, type, reply)
            /\ IF reply.ok
               THEN /\ results' = Collect(results, type,
                                          liveEntry(type, reply.text, codeContentOf(req)))
                    /\ scored' = scored \cup
                         {scoreCall(type, reply.text, codeContentOf(req))}
                    /\ UNCHANGED res
               ELSE IF reply.message = undefined
               THEN /\ res' = IF res = NoResponse
                              THEN [status |-> 500,
                                    body |-> [error |-> "Full analysis failed",
                                              details |-> NoMessageError]]
                              ELSE res
                    /\ UNCHANGED <<results, scored>>
               ELSE /\ results' = Collect(results, type, errorEntry(type, reply.message))
                    /\ UNCHANGED <<res, scored>>
       /\ pending' = pending \ {type}
  /\ UNCHANGED <<req, calls, mocked>>
  /\ UNCHANGED scorerVars
  /\ UNCHANGED <<other, client, uploads, incoming>>

NextThrown ==
  Receive \/ Analyze \/ AnalyzeSettleThrown \/ AnalyzeAll \/ BulkSettleThrown \/ BulkRespond

SpecThrown == InitServer /\ [][NextThrown]_vars

\* the handler of the request has nothing left to run: it was entered, no
\* call of it is awaited and the continuation of the join is not runnable
HandlerOver ==
  /\ req # NoRequest
  /\ ~NotStarted
  /\ pending = {}
  /\ ~(req.endpoint = "/api/analyze-all" /\ res = NoResponse /\ PromiseAll)

\* C28: every request to /api/analyze or /api/analyze-all receives exactly
\* one HTTP response, on every path (validation rejection, demo mode,
\* upstream success, upstream failure of any kind, a thrown value without a
\* message included): a handler that has nothing left to run has answered,
\* and a response once sent is not followed by another for the same request.
C28_ExactlyOneResponse ==
  /\ [](HandlerOver => res # NoResponse)
  /\ [][res # NoResponse => (res' = res \/ res' = NoResponse)]_vars

\* the score of an entry is the overall score and the code quality of its
\* metrics, and its metrics name the category
ScoreIsMetrics(entry, type) ==
  /\ entry.score = entry.metrics.overallScore
  /\ entry.score = entry.metrics.codeQuality
  /\ entry.metrics.analysisType = type

\* C29: in every result the server returns (single live, single demo, each
\* bulk entry, each bulk demo entry, each bulk per-category error entry) the
\* top-level score equals metrics.overallScore and metrics.codeQuality of
\* the same entry, and metrics.analysisType is the category the entry is
\* keyed or requested under.
C29_ScoreIsMetrics ==
  /\ (Answered /\ res.status = 200 /\ req.endpoint = "/api/analyze") =>
       ScoreIsMetrics(res.body, req.analysisType)
  /\ (Answered /\ res.status = 200 /\ req.endpoint = "/api/analyze-all") =>
       \A type \in DOMAIN res.body.results :
         ScoreIsMetrics(res.body.results[type], type)
  /\ \A type \in DOMAIN results : ScoreIsMetrics(results[type], type)

\* a live bulk answer with the error entry of security and the scored entry
\* of documentation
C29_Witness ==
  /\ Answered
  /\ req.endpoint = "/api/analyze-all"
  /\ res.status = 200
  /\ req.apiKey = LiveKey
  /\ res.body.results["security"].metrics.issuesFound = 1
  /\ res.body.results["security"].score = 0
  /\ res.body.results["documentation"].score > 0

(***************************************************************************)
(* The client: the state of the component App (client/src/App.jsx, lines   *)
(* 416-457), its event handlers and the one request analyzeCode sends.     *)
(* client.inFlight holds the requests sent and not yet settled.  null and  *)
(* the values of results and error are records, so that they compare.      *)
(***************************************************************************)
MaxInFlight == 2   \* requests in flight at which the model stops sending

null == [null |-> TRUE]

\* analyzeCode(analysisType = null), line 491: no category given
NullType == "<null>"

SampleCode == "// Sample JavaScript Code for Analysis"

ClientCodes == {"", " ", LegacyCode}
ClientKeys == {"", "  ", DemoKey, LiveKey}
ClientTypes == {"modernization", "security"}

RECURSIVE trim(_)
\* String.prototype.trim for blanks
trim(s) ==
  IF s = "" THEN ""
  ELSE IF SubSeq(s, 1, 1) = " " THEN trim(SubSeq(s, 2, Len(s)))
  ELSE IF SubSeq(s, Len(s), Len(s)) = " " THEN trim(SubSeq(s, 1, Len(s) - 1))
  ELSE s

\* only the empty key counted as missing
BlankKey_emptyOnly(key) == key = ""

\* line 498: !apiKey || apiKey.trim() === ''
BlankKey(key) == key = "" \/ trim(key) = ""

\* line 492: !code && !selectedFile
NoInput == client.code = "" /\ client.selectedFile = null

\* the buttons never disabled
disabled_never == FALSE

\* lines 950, 972 and 992: disabled={isAnalyzing}
disabled == client.isAnalyzing

\* lines 511-531: the form sent, and the route it is posted to
formData(type) ==
  [url |-> IF type # NullType THEN "/api/analyze" ELSE "/api/analyze-all",
   file |-> client.selectedFile,
   code |-> IF client.code # "" THEN client.code ELSE undefined,
   apiKey |-> client.apiKey,
   analysisType |-> type]

\* what axios resolves with: the 200 answers of the two routes
Resolved(request) ==
  IF request.url = "/api/analyze"
  THEN { [ok |-> TRUE, status |-> 200,
          data |-> [success |-> TRUE, result |-> VulnerableUnsafe, score |-> 40]],
         [ok |-> TRUE, status |-> 200,
          data |-> [analysis |-> "## Security Analysis", score |-> 55, demoMode |-> TRUE]] }
  ELSE { [ok |-> TRUE, status |-> 200,
          data |-> [success |-> TRUE,
                    results |-> [t \in KnownTypes |->
                                   [result |-> VulnerableUnsafe, score |-> 40]]]] }

\* what axios rejects with: the error answers of the server, answers of
\* something in between that carry no error field, and no answer at all
RejectedWith ==
  { [ok |-> FALSE, status |-> 400,
     data |-> [error |-> "Invalid API Key", details |-> "Your key is invalid.",
               helpUrl |-> HelpUrl]],
    [ok |-> FALSE, status |-> 400, data |-> [error |-> "No code provided"]],
    [ok |-> FALSE, status |-> 429,
     data |-> [error |-> "API Quota Exceeded", details |-> "Quota exceeded.",
               helpUrl |-> HelpUrl]],
    [ok |-> FALSE, status |-> 500,
     data |-> [error |-> "Analysis failed", details |-> NetworkMessage]],
    [ok |-> FALSE, status |-> 400, data |-> <<>>],
    [ok |-> FALSE, status |-> 401, data |-> <<>>],
    [ok |-> FALSE, status |-> 429, data |-> <<>>],
    [ok |-> FALSE, status |-> 502, data |-> <<>>],
    [ok |-> FALSE, status |-> 404, data |-> <<>>],
    [ok |-> FALSE, status |-> 0, data |-> <<>>] }

field(data, name) == IF name \in DOMAIN data THEN data[name] ELSE undefined

\* lines 533-551: the catch of analyzeCode; status 0 stands for a failure
\* without a response (err.response undefined)
catchError(err) ==
  IF field(err.data, "error") = "Invalid API Key"
  THEN [message |-> "Invalid API Key\n\n" \o field(err.data, "details")
                    \o "\n\nGet your free API key from: " \o field(err.data, "helpUrl")]
  ELSE IF field(err.data, "error") \notin {undefined, ""}
  THEN [message |-> "Error: " \o err.data.error \o "\n\n"
                    \o (IF field(err.data, "details") \in {undefined, ""}
                        THEN "Please try again." ELSE err.data.details)]
  ELSE IF err.status = 400
  THEN [message |-> "Bad Request\n\nPlease check your input and try again."]
  ELSE IF err.status = 401
  THEN [message |-> "Unauthorized\n\nYour API key is invalid. Please check your Google Gemini API key."]
  ELSE IF err.status = 429
  THEN [message |-> "API Quota Exceeded\n\n" \o field(err.data, "details")
                    \o "\n\nGet your API key from: " \o field(err.data, "helpUrl")]
  ELSE IF err.status >= 500
  THEN [message |-> "Server Error\n\nSomething went wrong on our end. Please try again later."]
  ELSE [message |-> "Analysis Failed\n\nPlease check your API key and try again."]

ClientFrame ==
  /\ UNCHANGED scorerVars
  /\ UNCHANGED serverVars
  /\ UNCHANGED <<uploads, incoming>>

\* lines 930-934: the textarea's onChange (the textarea is disabled while a
\* file is selected)
TypeCode ==
  /\ client.selectedFile = null
  /\ \E text \in ClientCodes :
       client' = [client EXCEPT !.code = text, !.selectedFile = null]
  /\ ClientFrame

\* lines 459-462: handleFileUpload
SelectFile ==
  /\ client' = [client EXCEPT !.selectedFile = [name |-> "app.js"], !.code = ""]
  /\ ClientFrame

\* lines 843, 858 and 874: setApiKey
SetApiKey ==
  /\ \E key \in ClientKeys : client' = [client EXCEPT !.apiKey = key]
  /\ ClientFrame

\* lines 491-531: a click on Analyze All (no category) or on the button of one
\* category, up to the await of the request
AnalyzeCode ==
  /\ ~disabled
  /\ Len(client.inFlight) < MaxInFlight
  /\ \E type \in ClientTypes \cup {NullType} :
       IF NoInput
       THEN client' = [client EXCEPT
                         !.error = [message |-> "Please provide code or upload a file"]]
       ELSE IF BlankKey(client.apiKey)
       THEN client' = [client EXCEPT
                         !.error = [message |-> "Please provide a valid Google Gemini API key. Get your free API key from Google AI Studio."]]
       ELSE client' = [client EXCEPT
                         !.isAnalyzing = TRUE,
                         !.error = null,
                         !.results = null,
                         !.inFlight = Append(@, formData(type))]
  /\ ClientFrame

\* lines 526, 531 and 533-554: the request settles
Settle ==
  /\ \E i \in DOMAIN client.inFlight :
       LET request == client.inFlight[i]
           rest == [j \in 1..(Len(client.inFlight) - 1) |->
                      IF j < i THEN client.inFlight[j] ELSE client.inFlight[j + 1]]
       IN \E answer \in Resolved(request) \cup RejectedWith :
            IF answer.ok
            THEN client' = [client EXCEPT
                   !.results =
                      IF request.analysisType # NullType
                      THEN [t \in {request.analysisType} |->
                              [result |-> field(answer.data, "result"),
                               score |-> answer.data.score]]
                      ELSE answer.data.results,
                   !.isAnalyzing = FALSE,
                   !.inFlight = rest]
            ELSE client' = [client EXCEPT
                   !.error = catchError(answer),
                   !.isAnalyzing = FALSE,
                   !.inFlight = rest]
  /\ ClientFrame

\* lines 557-562: clearAll
ClearAll ==
  /\ ~disabled
  /\ client' = [client EXCEPT !.code = "", !.selectedFile = null,
                              !.results = null, !.error = null]
  /\ ClientFrame

InitClient ==
  /\ analysisType = undefined
  /\ response = undefined
  /\ inputCode = undefined
  /\ metrics = NoRecord
  /\ firstMetrics = NoRecord
  /\ errorMetrics = NoRecord
  /\ detected = NoRecord
  /\ now = 0
  /\ genAI = undefined
  /\ ServerIdle
  /\ uploads = <<>>
  /\ incoming = NoRequest
  /\ client = [code |-> SampleCode, selectedFile |-> null, isAnalyzing |-> FALSE,
               results |-> null, error |-> null, apiKey |-> "", inFlight |-> <<>>]

NextClient == TypeCode \/ SelectFile \/ SetApiKey \/ AnalyzeCode \/ Settle \/ ClearAll

SpecClient == InitClient /\ [][NextClient]_vars

ValidationErrors ==
  {[message |-> "Please provide code or upload a file"],
   [message |-> "Please provide a valid Google Gemini API key. Get your free API key from Google AI Studio."]}

\* a key without any character other than blanks
NoKey == \A i \in 1..Len(client.apiKey) : SubSeq(client.apiKey, i, i) = " "

\* a step in which a request is sent, one in which analyzeCode refuses its
\* input and one in which a request settles
Sends == Len(client'.inFlight) > Len(client.inFlight)
Refuses == client'.error \in ValidationErrors /\ client'.error # client.error
Settles == Len(client'.inFlight) < Len(client.inFlight)

\* C30: analyzeCode sends no request and leaves results and isAnalyzing
\* unchanged when there is neither code nor a file or when the API key is
\* blank; otherwise it sets isAnalyzing, clears results and error and sends
\* exactly one request; when the request settles, with success or with any
\* error, isAnalyzing is false and exactly one of results and error is not
\* null; the buttons being disabled while isAnalyzing, at most one request
\* is in flight at any time.
C30_OneRequestAtATime ==
  /\ [](Len(client.inFlight) <= 1)
  /\ [](client.isAnalyzing <=> client.inFlight # <<>>)
  /\ [][/\ Sends =>
             /\ ~NoInput
             /\ ~NoKey
             /\ client'.isAnalyzing
             /\ client'.results = null
             /\ client'.error = null
             /\ Len(client'.inFlight) = Len(client.inFlight) + 1
        /\ (AnalyzeCode /\ (NoInput \/ NoKey)) =>
             /\ client'.inFlight = client.inFlight
             /\ client'.results = client.results
             /\ client'.isAnalyzing = client.isAnalyzing
             /\ client'.error \in ValidationErrors
        /\ (AnalyzeCode /\ ~NoInput /\ ~NoKey) => Sends
        /\ Refuses => (NoInput \/ NoKey)
        /\ Settles =>
             /\ ~client'.isAnalyzing
             /\ (client'.results # null) # (client'.error # null)]_vars

\* the request for one category has settled with an answer: the results
\* hold the entry of security, there is no error, nothing is in flight
C30_Witness ==
  /\ client # NoClient
  /\ ~client.isAnalyzing
  /\ client.inFlight = <<>>
  /\ client.error = null
  /\ client.results # null
  /\ DOMAIN client.results = {"security"}
  /\ client.apiKey = LiveKey

====
